---- MODULE Spec2Model ----
(***************************************************************************)
(* Supplier / product / association management application.               *)
(*                                                                         *)
(*   - the identifier utilities of the client (formatCNPJ, formatPhone,    *)
(*     validateCNPJ), as operators over strings;                           *)
(*   - the REST handlers of server/routes.ts over the three tables of      *)
(*     shared/schema.ts, each handler cut into steps at its awaits, so     *)
(*     that concurrent requests interleave between a lookup and a write.   *)
(*                                                                         *)
(* A string is a sequence of one-character strings.                        *)
(***************************************************************************)
EXTENDS Integers, Sequences, FiniteSets, TLC

VARIABLES
    value,          \* the text of the form field the utilities are applied to
    out,            \* the last call of a utility: [fn, arg, ret], or NoCall
    edits,          \* number of keystrokes applied to value
    suppliers,      \* table suppliers: set of rows [id, cnpj]
    nextSupplierId, \* the serial sequence of suppliers.id
    products,       \* table products: set of rows [id, barcode, quantity]
    nextProductId,  \* the serial sequence of products.id
    associations,   \* table supplier_product_associations: rows [id, supplierId, productId]
    nextAssocId,    \* the serial sequence of supplier_product_associations.id
    pending,        \* per connection: the request suspended between lookup and write, or Idle
    last,           \* the last response sent: [kind, resp, ...], or NoResponse
    freed           \* history: the pairs a DELETE /api/associations has answered 204 for

vars == <<value, out, edits, suppliers, nextSupplierId, products, nextProductId,
          associations, nextAssocId, pending, last, freed>>

formVars == <<value, out, edits>>
dbVars == <<suppliers, nextSupplierId, products, nextProductId,
            associations, nextAssocId, pending, last, freed>>

----------------------------------------------------------------------------
(* Bounds of the model *)

\* keystrokes applied to a base input
MaxEdits == 1

----------------------------------------------------------------------------
(* Strings *)

DigitChars == <<"0", "1", "2", "3", "4", "5", "6", "7", "8", "9">>

Digits == {DigitChars[i] : i \in 1..10}

\* parseInt of a one-digit string
ParseInt(c) == CHOOSE n \in 0..9 : DigitChars[n + 1] = c

\* the string of a sequence of digit values
Str(ns) == [i \in 1..Len(ns) |-> DigitChars[ns[i] + 1]]

\* value.replace(/\D/g, '')
RECURSIVE StripNonDigits(_)
StripNonDigits(s) ==
    IF s = <<>> THEN <<>>
    ELSE IF Head(s) \in Digits THEN <<Head(s)>> \o StripNonDigits(Tail(s))
    ELSE StripNonDigits(Tail(s))

\* mutant: a run of one digit is not recognised
AllSameDigit_Never(s) == FALSE

\* /^(\d)\1+$/.test(s): one digit followed by one or more copies of it
AllSameDigit(s) ==
    /\ Len(s) >= 2
    /\ s[1] \in Digits
    /\ \A i \in 2..Len(s) : s[i] = s[1]

----------------------------------------------------------------------------
(* formatCNPJ, formatPhone *)

\* mutant: the replacement writes '.' where the pattern has '/'
ReplaceCNPJPattern_DotForSlash(clean) ==
    IF Len(clean) < 14 THEN clean
    ELSE SubSeq(clean, 1, 2) \o <<".">> \o SubSeq(clean, 3, 5) \o <<".">>
         \o SubSeq(clean, 6, 8) \o <<".">> \o SubSeq(clean, 9, 12) \o <<"-">>
         \o SubSeq(clean, 13, 14) \o SubSeq(clean, 15, Len(clean))

\* mutant: the replacement leaves out the last group
ReplaceCNPJPattern_DropsLast(clean) ==
    IF Len(clean) < 14 THEN clean
    ELSE SubSeq(clean, 1, 2) \o <<".">> \o SubSeq(clean, 3, 5) \o <<".">>
         \o SubSeq(clean, 6, 8) \o <<"/">> \o SubSeq(clean, 9, 12) \o <<"-">>
         \o SubSeq(clean, 15, Len(clean))

\* clean.replace(/(\d{2})(\d{3})(\d{3})(\d{4})(\d{2})/, '$1.$2.$3/$4-$5') on a
\* string of digits: the first 14 digits are the match, what follows is kept
ReplaceCNPJPattern(clean) ==
    IF Len(clean) < 14 THEN clean
    ELSE SubSeq(clean, 1, 2) \o <<".">> \o SubSeq(clean, 3, 5) \o <<".">>
         \o SubSeq(clean, 6, 8) \o <<"/">> \o SubSeq(clean, 9, 12) \o <<"-">>
         \o SubSeq(clean, 13, 14) \o SubSeq(clean, 15, Len(clean))

\* mutant: the pattern is applied whatever the length
formatCNPJ_NoLengthTest(v) == ReplaceCNPJPattern(StripNonDigits(v))

formatCNPJ(v) ==
    LET cleanValue == StripNonDigits(v)
    IN  IF Len(cleanValue) <= 14 THEN ReplaceCNPJPattern(cleanValue)
        ELSE cleanValue

\* mutant: the replacement leaves out the space after ')'
ReplacePhonePattern_NoSpace(clean, n) ==
    IF Len(clean) < 6 + n THEN clean
    ELSE <<"(">> \o SubSeq(clean, 1, 2) \o <<")">> \o SubSeq(clean, 3, 2 + n)
         \o <<"-">> \o SubSeq(clean, 3 + n, 6 + n) \o SubSeq(clean, 7 + n, Len(clean))

\* mutant: what follows the match is dropped
ReplacePhonePattern_DropsTail(clean, n) ==
    IF Len(clean) < 6 + n THEN clean
    ELSE <<"(">> \o SubSeq(clean, 1, 2) \o <<")", " ">> \o SubSeq(clean, 3, 2 + n)
         \o <<"-">> \o SubSeq(clean, 3 + n, 6 + n)

\* clean.replace(/(\d{2})(\d{n})(\d{4})/, '($1) $2-$3') on a string of digits
ReplacePhonePattern(clean, n) ==
    IF Len(clean) < 6 + n THEN clean
    ELSE <<"(">> \o SubSeq(clean, 1, 2) \o <<")", " ">> \o SubSeq(clean, 3, 2 + n)
         \o <<"-">> \o SubSeq(clean, 3 + n, 6 + n) \o SubSeq(clean, 7 + n, Len(clean))

formatPhone(v) ==
    LET cleanValue == StripNonDigits(v)
    IN  IF Len(cleanValue) <= 10 THEN ReplacePhonePattern(cleanValue, 4)
        ELSE ReplacePhonePattern(cleanValue, 5)

----------------------------------------------------------------------------
(* validateCNPJ *)

\* weight = weight === 2 ? 9 : weight - 1
NextWeight(weight) == IF weight = 2 THEN 9 ELSE weight - 1

\* for (let i = 0; i < n; i++) { sum += parseInt(clean[i]) * weight; weight = ... }
RECURSIVE WeightedSum(_, _, _, _, _)
WeightedSum(clean, i, n, weight, sum) ==
    IF i >= n THEN sum
    ELSE WeightedSum(clean, i + 1, n, NextWeight(weight),
                     sum + ParseInt(clean[i + 1]) * weight)

\* sum % 11 < 2 ? 0 : 11 - (sum % 11)
CheckDigit(sum) == IF sum % 11 < 2 THEN 0 ELSE 11 - (sum % 11)

\* mutant: only a string that is too short is turned away
LengthNot14_TooShort(clean) == Len(clean) < 14

\* cleanCNPJ.length !== 14
LengthNot14(clean) == Len(clean) # 14

\* mutant: the second check digit is not looked at
validateCNPJ_FirstDigitOnly(cnpj) ==
    LET cleanCNPJ == StripNonDigits(cnpj)
    IN  IF Len(cleanCNPJ) # 14 THEN FALSE
        ELSE IF AllSameDigit(cleanCNPJ) THEN FALSE
        ELSE CheckDigit(WeightedSum(cleanCNPJ, 0, 12, 5, 0)) = ParseInt(cleanCNPJ[13])

validateCNPJ(cnpj) ==
    LET cleanCNPJ == StripNonDigits(cnpj)
    IN  IF LengthNot14(cleanCNPJ) THEN FALSE
        ELSE IF AllSameDigit(cleanCNPJ) THEN FALSE
        ELSE IF CheckDigit(WeightedSum(cleanCNPJ, 0, 12, 5, 0)) # ParseInt(cleanCNPJ[13])
             THEN FALSE
        ELSE IF CheckDigit(WeightedSum(cleanCNPJ, 0, 13, 6, 0)) # ParseInt(cleanCNPJ[14])
             THEN FALSE
        ELSE TRUE

----------------------------------------------------------------------------
(* The form field: inputs of the utilities *)

NoCall == [fn |-> "none"]

\* 11444777000161: both check digits right
ValidDigits == Str(<<1, 1, 4, 4, 4, 7, 7, 7, 0, 0, 0, 1, 6, 1>>)

\* first check digit wrong (5 for 6); the second, 3, is right for the 13 digits before it
WrongFirstDigits == Str(<<1, 1, 4, 4, 4, 7, 7, 7, 0, 0, 0, 1, 5, 3>>)

\* 11444777000162: only the last digit wrong
WrongLastDigits == Str(<<1, 1, 4, 4, 4, 7, 7, 7, 0, 0, 0, 1, 6, 2>>)

\* 11222333000181: another number with both check digits right
OtherValidDigits == Str(<<1, 1, 2, 2, 2, 3, 3, 3, 0, 0, 0, 1, 8, 1>>)

\* 14 identical digits whose check digits compute as right
ZeroDigits == Str(<<0, 0, 0, 0, 0, 0, 0, 0, 0, 0, 0, 0, 0, 0>>)

\* an 11-digit mobile number, 11999998888
PhoneDigits == Str(<<1, 1, 9, 9, 9, 9, 9, 8, 8, 8, 8>>)

\* the ten strings of 14 identical digits, 00000000000000 to 99999999999999
RepeatedDigits == {[i \in 1..14 |-> c] : c \in Digits}

\* a 10-digit landline number, 1199998888
Phone10Digits == Str(<<1, 1, 9, 9, 9, 9, 8, 8, 8, 8>>)

\* the texts of the phone field
PhoneInputs == {Phone10Digits, PhoneDigits, formatPhone(PhoneDigits), <<>>}

BaseInputs ==
    {ValidDigits, formatCNPJ(ValidDigits), WrongFirstDigits, WrongLastDigits,
     ZeroDigits, formatCNPJ(ZeroDigits), PhoneDigits, <<>>}

TypedChars == Digits \cup {".", "x"}

\* a text of BaseInputs that is still to be edited, or a text of
\* RepeatedDigits as it stands
InitForm ==
    /\ \/ value \in BaseInputs /\ edits = 0
       \/ value \in RepeatedDigits /\ edits = MaxEdits
    /\ out = NoCall

\* a keystroke that overwrites one character
ReplaceChar ==
    /\ edits < MaxEdits
    /\ \E i \in 1..Len(value), c \in TypedChars :
          /\ c # value[i]
          /\ value' = [value EXCEPT ![i] = c]
    /\ edits' = edits + 1
    /\ out' = NoCall
    /\ UNCHANGED dbVars

\* a keystroke that appends one character
AppendChar ==
    /\ edits < MaxEdits
    /\ \E c \in TypedChars : value' = Append(value, c)
    /\ edits' = edits + 1
    /\ out' = NoCall
    /\ UNCHANGED dbVars

\* a keystroke that deletes the last character
DeleteLastChar ==
    /\ edits < MaxEdits
    /\ value # <<>>
    /\ value' = SubSeq(value, 1, Len(value) - 1)
    /\ edits' = edits + 1
    /\ out' = NoCall
    /\ UNCHANGED dbVars

\* SupplierForm.handleCNPJChange: the field takes the formatted text
HandleCNPJChange ==
    /\ out' = [fn |-> "formatCNPJ", arg |-> value, ret |-> formatCNPJ(value)]
    /\ value' = formatCNPJ(value)
    /\ UNCHANGED <<edits>>
    /\ UNCHANGED dbVars

\* SupplierForm.handlePhoneChange
HandlePhoneChange ==
    /\ out' = [fn |-> "formatPhone", arg |-> value, ret |-> formatPhone(value)]
    /\ value' = formatPhone(value)
    /\ UNCHANGED <<edits>>
    /\ UNCHANGED dbVars

\* the zod refinement of the supplier form: cnpj.refine(validateCNPJ)
RefineCNPJ ==
    /\ out' = [fn |-> "validateCNPJ", arg |-> value, ret |-> validateCNPJ(value)]
    /\ UNCHANGED <<value, edits>>
    /\ UNCHANGED dbVars

NextForm ==
    \/ ReplaceChar
    \/ AppendChar
    \/ DeleteLastChar
    \/ HandleCNPJChange
    \/ HandlePhoneChange
    \/ RefineCNPJ

----------------------------------------------------------------------------
(* The tables (shared/schema.ts) and the storage layer (DatabaseStorage) *)

\* connections that can hold a request suspended at an await
MaxConns == 2
\* values the serial sequences may hand out
MaxSupplierId == 2
MaxProductId == 2
MaxAssocId == 2

Conns == 1..MaxConns
SupplierIds == 1..MaxSupplierId
ProductIds == 1..MaxProductId

Idle == [kind |-> "Idle"]
NoResponse == [kind |-> "none", resp |-> "none"]
Absent == <<"absent">>
Null == <<"null">>

\* the cnpj values of request bodies: one number punctuated and bare, and one
\* whose last digit is wrong
CnpjPool == {formatCNPJ(ValidDigits), ValidDigits, formatCNPJ(WrongLastDigits)}

\* db.select().from(suppliers).where(eq(suppliers.cnpj, cnpj)): the rows found
getSupplierByCnpj(cnpj) == {s \in suppliers : s.cnpj = cnpj}

\* db.select().from(supplierProductAssociations).where(and(eq(..), eq(..)))
getAssociation(supplierId, productId) ==
    {a \in associations : a.supplierId = supplierId /\ a.productId = productId}

\* mutant: no unique index on suppliers.cnpj
CnpjUniqueViolated_NoIndex(id, cnpj) == FALSE

\* cnpj ... .unique(): another row already holds the value
CnpjUniqueViolated(id, cnpj) ==
    \E s \in suppliers : s.id # id /\ s.cnpj = cnpj

\* mutant: no foreign keys on the association table
ForeignKeyViolated_NoKeys(supplierId, productId) == FALSE

\* supplier_id references suppliers.id, product_id references products.id
ForeignKeyViolated(supplierId, productId) ==
    \/ ~ \E s \in suppliers : s.id = supplierId
    \/ ~ \E p \in products : p.id = productId

\* mutant: the delete does not cascade
CascadeSupplier_None(id) == associations

\* onDelete: "cascade" on supplier_id: the associations left when supplier id goes
CascadeSupplier(id) == {a \in associations : a.supplierId # id}

\* onDelete: "cascade" on product_id
CascadeProduct(id) == {a \in associations : a.productId # id}

InitDB ==
    /\ suppliers = {}
    /\ nextSupplierId = 1
    /\ products = {}
    /\ nextProductId = 1
    /\ associations = {}
    /\ nextAssocId = 1
    /\ pending = [c \in Conns |-> Idle]
    /\ last = NoResponse
    /\ freed = {}

\* requests of a kind suspended before their write; a create is taken up only
\* while the serial can still hand each of them an id within the bound
InFlight(kind) == Cardinality({c \in Conns : pending[c].kind = kind})

----------------------------------------------------------------------------
(* Supplier routes (server/routes.ts) *)

\* mutant: the lookup result is ignored
SupplierExists_Ignored(cnpj) == FALSE

\* if (existingSupplier) of POST /api/suppliers
SupplierExists(cnpj) == getSupplierByCnpj(cnpj) # {}

\* POST /api/suppliers up to the await of createSupplier, for a body whose cnpj
\* is drawn from the given set: the body is parsed, the supplier is looked up
\* by cnpj, and a hit is answered 400
PostSupplierLookup(c, cnpjs) ==
    /\ pending[c] = Idle
    /\ \E cnpj \in cnpjs :
          IF cnpj = Absent
          THEN /\ last' = [kind |-> "PostSupplier", resp |-> "InvalidData", cnpj |-> cnpj]
               /\ UNCHANGED pending
          ELSE IF SupplierExists(cnpj)
          THEN /\ last' = [kind |-> "PostSupplier", resp |-> "DuplicateIdentifier",
                           cnpj |-> cnpj]
               /\ UNCHANGED pending
          ELSE /\ nextSupplierId + InFlight("PostSupplier") <= MaxSupplierId
               /\ pending' = [pending EXCEPT ![c] = [kind |-> "PostSupplier", cnpj |-> cnpj]]
               /\ UNCHANGED last
    /\ UNCHANGED <<suppliers, nextSupplierId, products, nextProductId,
                   associations, nextAssocId, freed>>
    /\ UNCHANGED formVars

\* POST /api/suppliers from createSupplier on: the insert draws an id from the
\* serial, a unique violation throws and is answered 500, else 201
PostSupplierInsert(c) ==
    /\ pending[c].kind = "PostSupplier"
    /\ LET cnpj == pending[c].cnpj
           id == nextSupplierId
       IN  /\ nextSupplierId' = nextSupplierId + 1
           /\ IF CnpjUniqueViolated(id, cnpj)
              THEN /\ last' = [kind |-> "PostSupplier", resp |-> "InternalError",
                               cnpj |-> cnpj]
                   /\ UNCHANGED suppliers
              ELSE /\ suppliers' = suppliers \cup {[id |-> id, cnpj |-> cnpj]}
                   /\ last' = [kind |-> "PostSupplier", resp |-> "Created", cnpj |-> cnpj]
    /\ pending' = [pending EXCEPT ![c] = Idle]
    /\ UNCHANGED <<products, nextProductId, associations, nextAssocId, freed>>
    /\ UNCHANGED formVars

\* mutant: an update that finds no row stores one
UpdateSupplierAnswer_Upsert(id, cnpj) ==
    IF ~ \E s \in suppliers : s.id = id
    THEN /\ suppliers' = suppliers \cup {[id |-> id, cnpj |-> cnpj]}
         /\ last' = [kind |-> "PutSupplier", resp |-> "OK", id |-> id, cnpj |-> cnpj]
    ELSE /\ last' = [kind |-> "PutSupplier", resp |-> "OK", id |-> id, cnpj |-> cnpj]
         /\ UNCHANGED suppliers

\* storage.updateSupplier(id, {cnpj}): no row is 404; a unique violation throws
\* and is answered 500; else the row is rewritten and answered 200. A body
\* without cnpj rewrites fields the model does not hold.
UpdateSupplierAnswer(id, cnpj) ==
    IF ~ \E s \in suppliers : s.id = id
    THEN /\ last' = [kind |-> "PutSupplier", resp |-> "NotFound", id |-> id, cnpj |-> cnpj]
         /\ UNCHANGED suppliers
    ELSE IF cnpj # Absent /\ CnpjUniqueViolated(id, cnpj)
    THEN /\ last' = [kind |-> "PutSupplier", resp |-> "InternalError", id |-> id,
                     cnpj |-> cnpj]
         /\ UNCHANGED suppliers
    ELSE /\ suppliers' = {IF s.id = id /\ cnpj # Absent THEN [s EXCEPT !.cnpj = cnpj] ELSE s :
                             s \in suppliers}
         /\ last' = [kind |-> "PutSupplier", resp |-> "OK", id |-> id, cnpj |-> cnpj]

\* mutant: the target is looked up first, and only a stored one is checked
CnpjHeldByAnother_StoredTarget(id, cnpj) ==
    /\ \E s \in suppliers : s.id = id
    /\ \E existing \in getSupplierByCnpj(cnpj) : existing.id # id

\* mutant: a hit on the supplier's own row counts as a duplicate
CnpjHeldByAnother_AnyRow(id, cnpj) == getSupplierByCnpj(cnpj) # {}

\* if (existingSupplier && existingSupplier.id !== id) of PUT /api/suppliers/:id
CnpjHeldByAnother(id, cnpj) ==
    \E existing \in getSupplierByCnpj(cnpj) : existing.id # id

\* PUT /api/suppliers/:id up to the await of updateSupplier, for a body whose
\* cnpj is drawn from the given set: with a cnpj in the body the supplier is
\* looked up, and a hit on another id is answered 400; without one the handler
\* goes straight to updateSupplier
PutSupplierLookup(c, cnpjs) ==
    /\ pending[c] = Idle
    /\ \E id \in SupplierIds, cnpj \in cnpjs :
          IF cnpj = Absent
          THEN /\ UpdateSupplierAnswer(id, cnpj)
               /\ UNCHANGED pending
          ELSE IF CnpjHeldByAnother(id, cnpj)
          THEN /\ last' = [kind |-> "PutSupplier", resp |-> "DuplicateIdentifier",
                           id |-> id, cnpj |-> cnpj]
               /\ UNCHANGED <<pending, suppliers>>
          ELSE /\ pending' = [pending EXCEPT ![c] =
                                 [kind |-> "PutSupplier", id |-> id, cnpj |-> cnpj]]
               /\ UNCHANGED <<last, suppliers>>
    /\ UNCHANGED <<nextSupplierId, products, nextProductId, associations, nextAssocId, freed>>
    /\ UNCHANGED formVars

\* PUT /api/suppliers/:id from updateSupplier on
PutSupplierUpdate(c) ==
    /\ pending[c].kind = "PutSupplier"
    /\ UpdateSupplierAnswer(pending[c].id, pending[c].cnpj)
    /\ pending' = [pending EXCEPT ![c] = Idle]
    /\ UNCHANGED <<nextSupplierId, products, nextProductId, associations, nextAssocId, freed>>
    /\ UNCHANGED formVars

\* DELETE /api/suppliers/:id: one statement, which takes the supplier's
\* associations with it; rowCount 0 is answered 404
DeleteSupplier ==
    /\ \E id \in SupplierIds :
          IF \E s \in suppliers : s.id = id
          THEN /\ suppliers' = {s \in suppliers : s.id # id}
               /\ associations' = CascadeSupplier(id)
               /\ last' = [kind |-> "DeleteSupplier", resp |-> "NoContent", id |-> id,
                           cascaded |-> Cardinality(associations \ CascadeSupplier(id))]
          ELSE /\ last' = [kind |-> "DeleteSupplier", resp |-> "NotFound", id |-> id,
                           cascaded |-> 0]
               /\ UNCHANGED <<suppliers, associations>>
    /\ UNCHANGED <<nextSupplierId, products, nextProductId, nextAssocId, pending, freed>>
    /\ UNCHANGED formVars

NextSupplier ==
    \/ \E c \in Conns : PostSupplierLookup(c, CnpjPool \cup {Absent})
    \/ \E c \in Conns : PostSupplierInsert(c)
    \/ \E c \in Conns : PutSupplierLookup(c, CnpjPool \cup {Absent})
    \/ \E c \in Conns : PutSupplierUpdate(c)
    \/ DeleteSupplier

FormIdle ==
    /\ value = <<>>
    /\ out = NoCall
    /\ edits = 0

\* the empty database, nobody at the form
InitSupplier == InitDB /\ FormIdle

\* the supplier routes alone
SpecSupplier == InitSupplier /\ [][NextSupplier]_vars

\* a text in the form field, no request under way
InitCNPJ == InitForm /\ InitDB

\* the utilities alone
SpecCNPJ == InitCNPJ /\ [][NextForm]_vars

\* a text in the phone field that is still to be edited, no request under way
InitPhone ==
    /\ value \in PhoneInputs
    /\ edits = 0
    /\ out = NoCall
    /\ InitDB

\* the keystrokes and the handler of the phone field
NextPhone ==
    \/ ReplaceChar
    \/ AppendChar
    \/ DeleteLastChar
    \/ HandlePhoneChange

\* formatPhone alone
SpecPhone == InitPhone /\ [][NextPhone]_vars

----------------------------------------------------------------------------
(* Product and association routes (server/routes.ts) *)

\* DELETE /api/products/:id: one statement, which takes the product's
\* associations with it; rowCount 0 is answered 404
DeleteProduct ==
    /\ \E id \in ProductIds :
          IF \E p \in products : p.id = id
          THEN /\ products' = {p \in products : p.id # id}
               /\ associations' = CascadeProduct(id)
               /\ last' = [kind |-> "DeleteProduct", resp |-> "NoContent", id |-> id,
                           cascaded |-> Cardinality(associations \ CascadeProduct(id))]
          ELSE /\ last' = [kind |-> "DeleteProduct", resp |-> "NotFound", id |-> id,
                           cascaded |-> 0]
               /\ UNCHANGED <<products, associations>>
    /\ UNCHANGED <<suppliers, nextSupplierId, nextProductId, nextAssocId, pending, freed>>
    /\ UNCHANGED formVars

\* the empty string, which the product form submits for a barcode left blank
Empty == <<>>

\* the barcode values of request bodies
BarcodePool == {Empty, <<"7", "8", "9">>, <<"4", "0">>}

\* the quantity texts of request bodies (multipart fields are strings)
QuantityPool == {<<"2">>, <<"-", "1">>, <<"x">>}

\* JavaScript values of a quantity: a number, NaN, undefined
Num(n) == [t |-> "number", n |-> n]
NaN == [t |-> "NaN"]
Undefined == [t |-> "undefined"]

\* the number a string of digits denotes
RECURSIVE DigitsValue(_)
DigitsValue(s) ==
    IF s = <<>> THEN 0 ELSE 10 * DigitsValue(SubSeq(s, 1, Len(s) - 1)) + ParseInt(s[Len(s)])

\* the leading digits of a string
RECURSIVE LeadingDigits(_)
LeadingDigits(s) ==
    IF s = <<>> \/ Head(s) \notin Digits THEN <<>>
    ELSE <<Head(s)>> \o LeadingDigits(Tail(s))

\* parseInt(text): an optional sign, then the leading digits; NaN without any
ParseIntText(text) ==
    LET negative == text # <<>> /\ Head(text) = "-"
        body == IF text # <<>> /\ Head(text) \in {"-", "+"} THEN Tail(text) ELSE text
        digits == LeadingDigits(body)
    IN  IF digits = <<>> THEN NaN
        ELSE IF negative THEN Num(0 - DigitsValue(digits)) ELSE Num(DigitsValue(digits))

\* a JavaScript string taken as a condition: absent and '' are falsy
Truthy(text) == text # Absent /\ text # Empty

\* db.select().from(products).where(eq(products.barcode, barcode)): the rows found
getProductByBarcode(barcode) == {p \in products : p.barcode = barcode}

\* mutant: no unique index on products.barcode
BarcodeUniqueViolated_NoIndex(id, barcode) == FALSE

\* barcode ... .unique(): another row already holds the value; NULLs never collide
BarcodeUniqueViolated(id, barcode) ==
    /\ barcode # Null
    /\ \E p \in products : p.id # id /\ p.barcode = barcode

\* mutant: the lookup result is ignored
ProductExists_Ignored(barcode) == FALSE

\* if (existingProduct) of POST /api/products
ProductExists(barcode) == getProductByBarcode(barcode) # {}

\* quantity: req.body.quantity ? parseInt(req.body.quantity) : 0
PostQuantity(quantity) == IF Truthy(quantity) THEN ParseIntText(quantity) ELSE Num(0)

\* POST /api/products up to the await of createProduct, for a body whose
\* barcode and quantity are drawn from the given sets: the body is parsed (a
\* quantity that is not a number is answered 400), a truthy barcode is looked
\* up and a hit is answered 400; without one the handler goes straight to
\* createProduct
PostProductLookup(c, barcodes, quantities) ==
    /\ pending[c] = Idle
    /\ \E barcode \in barcodes, quantity \in quantities :
          IF PostQuantity(quantity) = NaN
          THEN /\ last' = [kind |-> "PostProduct", resp |-> "InvalidData",
                           barcode |-> barcode]
               /\ UNCHANGED pending
          ELSE IF Truthy(barcode) /\ ProductExists(barcode)
          THEN /\ last' = [kind |-> "PostProduct", resp |-> "DuplicateIdentifier",
                           barcode |-> barcode]
               /\ UNCHANGED pending
          ELSE /\ nextProductId + InFlight("PostProduct") <= MaxProductId
               /\ pending' = [pending EXCEPT ![c] =
                                 [kind |-> "PostProduct", barcode |-> barcode,
                                  quantity |-> PostQuantity(quantity)]]
               /\ UNCHANGED last
    /\ UNCHANGED <<suppliers, nextSupplierId, products, nextProductId,
                   associations, nextAssocId, freed>>
    /\ UNCHANGED formVars

\* POST /api/products from createProduct on: the insert draws an id from the
\* serial and stores NULL for a barcode the body does not have; a unique
\* violation throws and is answered 500, else 201
PostProductInsert(c) ==
    /\ pending[c].kind = "PostProduct"
    /\ LET barcode == pending[c].barcode
           stored == IF barcode = Absent THEN Null ELSE barcode
           id == nextProductId
       IN  /\ nextProductId' = nextProductId + 1
           /\ IF BarcodeUniqueViolated(id, stored)
              THEN /\ last' = [kind |-> "PostProduct", resp |-> "InternalError",
                               barcode |-> barcode]
                   /\ UNCHANGED products
              ELSE /\ products' = products \cup
                          {[id |-> id, barcode |-> stored, quantity |-> pending[c].quantity.n]}
                   /\ last' = [kind |-> "PostProduct", resp |-> "Created",
                               barcode |-> barcode]
    /\ pending' = [pending EXCEPT ![c] = Idle]
    /\ UNCHANGED <<suppliers, nextSupplierId, associations, nextAssocId, freed>>
    /\ UNCHANGED formVars

\* mutant: updateProduct returns a row whatever the id
ProductRowUpdated_Always(id) == TRUE

\* const [updated] = ... .where(eq(products.id, id)).returning(): a row matched
ProductRowUpdated(id) == \E p \in products : p.id = id

\* storage.updateProduct(id, {barcode, quantity}): no row is 404; a unique
\* violation throws and is answered 500; else the fields the body has are
\* rewritten and the answer is 200
UpdateProductAnswer(id, barcode, quantity) ==
    IF ~ ProductRowUpdated(id)
    THEN /\ last' = [kind |-> "PutProduct", resp |-> "NotFound", id |-> id,
                     barcode |-> barcode]
         /\ UNCHANGED products
    ELSE IF barcode # Absent /\ BarcodeUniqueViolated(id, barcode)
    THEN /\ last' = [kind |-> "PutProduct", resp |-> "InternalError", id |-> id,
                     barcode |-> barcode]
         /\ UNCHANGED products
    ELSE /\ products' =
               {IF p.id = id
                THEN [p EXCEPT !.barcode = IF barcode = Absent THEN @ ELSE barcode,
                               !.quantity = IF quantity = Undefined THEN @ ELSE quantity.n]
                ELSE p : p \in products}
         /\ last' = [kind |-> "PutProduct", resp |-> "OK", id |-> id, barcode |-> barcode]

\* mutant: a hit on the product's own row counts as a duplicate
BarcodeHeldByAnother_AnyRow(id, barcode) == getProductByBarcode(barcode) # {}

\* if (existingProduct && existingProduct.id !== id) of PUT /api/products/:id
BarcodeHeldByAnother(id, barcode) ==
    \E existing \in getProductByBarcode(barcode) : existing.id # id

\* quantity: req.body.quantity ? parseInt(req.body.quantity) : undefined
PutQuantity(quantity) == IF Truthy(quantity) THEN ParseIntText(quantity) ELSE Undefined

\* PUT /api/products/:id up to the await of updateProduct: the body is parsed,
\* a truthy barcode is looked up and a hit on another id is answered 400;
\* without one the handler goes straight to updateProduct
PutProductLookup(c, barcodes, quantities) ==
    /\ pending[c] = Idle
    /\ \E id \in ProductIds, barcode \in barcodes, quantity \in quantities :
          IF PutQuantity(quantity) = NaN
          THEN /\ last' = [kind |-> "PutProduct", resp |-> "InvalidData", id |-> id,
                           barcode |-> barcode]
               /\ UNCHANGED <<pending, products>>
          ELSE IF ~ Truthy(barcode)
          THEN /\ UpdateProductAnswer(id, barcode, PutQuantity(quantity))
               /\ UNCHANGED pending
          ELSE IF BarcodeHeldByAnother(id, barcode)
          THEN /\ last' = [kind |-> "PutProduct", resp |-> "DuplicateIdentifier",
                           id |-> id, barcode |-> barcode]
               /\ UNCHANGED <<pending, products>>
          ELSE /\ pending' = [pending EXCEPT ![c] =
                                 [kind |-> "PutProduct", id |-> id, barcode |-> barcode,
                                  quantity |-> PutQuantity(quantity)]]
               /\ UNCHANGED <<last, products>>
    /\ UNCHANGED <<suppliers, nextSupplierId, nextProductId, associations, nextAssocId, freed>>
    /\ UNCHANGED formVars

\* PUT /api/products/:id from updateProduct on
PutProductUpdate(c) ==
    /\ pending[c].kind = "PutProduct"
    /\ UpdateProductAnswer(pending[c].id, pending[c].barcode, pending[c].quantity)
    /\ pending' = [pending EXCEPT ![c] = Idle]
    /\ UNCHANGED <<suppliers, nextSupplierId, nextProductId, associations, nextAssocId, freed>>
    /\ UNCHANGED formVars

\* the product routes, bodies with any barcode and any quantity
NextProduct ==
    \/ \E c \in Conns : PostProductLookup(c, BarcodePool \cup {Absent}, QuantityPool \cup {Absent})
    \/ \E c \in Conns : PostProductInsert(c)
    \/ \E c \in Conns : PutProductLookup(c, BarcodePool \cup {Absent}, QuantityPool \cup {Absent})
    \/ \E c \in Conns : PutProductUpdate(c)
    \/ DeleteProduct

\* the product routes, bodies with any barcode and no quantity
NextBarcode ==
    \/ \E c \in Conns : PostProductLookup(c, BarcodePool \cup {Absent}, {Absent})
    \/ \E c \in Conns : PostProductInsert(c)
    \/ \E c \in Conns : PutProductLookup(c, BarcodePool \cup {Absent}, {Absent})
    \/ \E c \in Conns : PutProductUpdate(c)
    \/ DeleteProduct

\* the product routes, bodies with any quantity and one barcode or none
NextQuantity ==
    \/ \E c \in Conns : PostProductLookup(c, {<<"4", "0">>, Absent}, QuantityPool \cup {Absent})
    \/ \E c \in Conns : PostProductInsert(c)
    \/ \E c \in Conns : PutProductLookup(c, {<<"4", "0">>, Absent}, QuantityPool \cup {Absent})
    \/ \E c \in Conns : PutProductUpdate(c)
    \/ DeleteProduct

\* the empty database, nobody at the form
InitProduct == InitDB /\ FormIdle

\* the product routes alone, as far as quantities go
SpecQuantity == InitProduct /\ [][NextQuantity]_vars

\* the product routes alone, as far as barcodes go
SpecBarcode == InitProduct /\ [][NextBarcode]_vars

\* mutant: the lookup result is ignored
AssociationExists_Ignored(supplierId, productId) == FALSE

\* if (existingAssociation) of POST /api/associations
AssociationExists(supplierId, productId) == getAssociation(supplierId, productId) # {}

\* POST /api/associations up to the await of createAssociation: the pair is
\* looked up, and a hit is answered 400
PostAssociationLookup(c) ==
    /\ pending[c] = Idle
    /\ \E supplierId \in SupplierIds, productId \in ProductIds :
          IF AssociationExists(supplierId, productId)
          THEN /\ last' = [kind |-> "PostAssociation", resp |-> "DuplicateAssociation",
                           supplierId |-> supplierId, productId |-> productId]
               /\ UNCHANGED pending
          ELSE /\ nextAssocId + InFlight("PostAssociation") <= MaxAssocId
               /\ pending' = [pending EXCEPT ![c] =
                                 [kind |-> "PostAssociation", supplierId |-> supplierId,
                                  productId |-> productId]]
               /\ UNCHANGED last
    /\ UNCHANGED <<suppliers, nextSupplierId, products, nextProductId,
                   associations, nextAssocId, freed>>
    /\ UNCHANGED formVars

\* POST /api/associations from createAssociation on: the insert draws an id
\* from the serial; a foreign-key violation throws and is answered 500, else
\* the row is stored and answered 201. The table has no unique index on the pair.
PostAssociationInsert(c) ==
    /\ pending[c].kind = "PostAssociation"
    /\ LET supplierId == pending[c].supplierId
           productId == pending[c].productId
           id == nextAssocId
       IN  /\ nextAssocId' = nextAssocId + 1
           /\ IF ForeignKeyViolated(supplierId, productId)
              THEN /\ last' = [kind |-> "PostAssociation", resp |-> "InternalError",
                               supplierId |-> supplierId, productId |-> productId]
                   /\ UNCHANGED associations
              ELSE /\ associations' = associations \cup
                          {[id |-> id, supplierId |-> supplierId, productId |-> productId]}
                   /\ last' = [kind |-> "PostAssociation", resp |-> "Created",
                               supplierId |-> supplierId, productId |-> productId]
    /\ pending' = [pending EXCEPT ![c] = Idle]
    /\ UNCHANGED <<suppliers, nextSupplierId, products, nextProductId, freed>>
    /\ UNCHANGED formVars

\* mutant: the delete filters on the supplier alone
deleteAssociation_BySupplier(supplierId, productId) ==
    {a \in associations : a.supplierId # supplierId}

\* storage.deleteAssociation: the rows left by
\* db.delete(supplierProductAssociations).where(and(eq(..), eq(..)))
deleteAssociation(supplierId, productId) ==
    {a \in associations : ~ (a.supplierId = supplierId /\ a.productId = productId)}

\* DELETE /api/associations/:supplierId/:productId: one statement; rowCount 0
\* is answered 404
DeleteAssociation ==
    /\ \E supplierId \in SupplierIds, productId \in ProductIds :
          LET left == deleteAssociation(supplierId, productId)
          IN  IF left # associations
              THEN /\ associations' = left
                   /\ freed' = freed \cup {<<supplierId, productId>>}
                   /\ last' = [kind |-> "DeleteAssociation", resp |-> "NoContent",
                               supplierId |-> supplierId, productId |-> productId]
              ELSE /\ last' = [kind |-> "DeleteAssociation", resp |-> "NotFound",
                               supplierId |-> supplierId, productId |-> productId]
                   /\ UNCHANGED <<associations, freed>>
    /\ UNCHANGED <<suppliers, nextSupplierId, products, nextProductId, nextAssocId, pending>>
    /\ UNCHANGED formVars

NextAssoc ==
    \/ \E c \in Conns : PostAssociationLookup(c)
    \/ \E c \in Conns : PostAssociationInsert(c)
    \/ DeleteAssociation
    \/ DeleteSupplier
    \/ DeleteProduct

\* a database that holds one supplier, one product and their association
InitStored ==
    /\ suppliers = {[id |-> 1, cnpj |-> formatCNPJ(ValidDigits)]}
    /\ nextSupplierId = 2
    /\ products = {[id |-> 1, barcode |-> <<"4", "0">>, quantity |-> 0]}
    /\ nextProductId = 2
    /\ associations = {[id |-> 1, supplierId |-> 1, productId |-> 1]}
    /\ nextAssocId = 2
    /\ pending = [c \in Conns |-> Idle]
    /\ last = NoResponse
    /\ freed = {}
    /\ FormIdle

\* the updates and the deletes; a body holds the stored cnpj or barcode, one
\* that no row holds, or none
NextAmend ==
    \/ \E c \in Conns : PutSupplierLookup(c, {formatCNPJ(ValidDigits), ValidDigits, Absent})
    \/ \E c \in Conns : PutSupplierUpdate(c)
    \/ \E c \in Conns : PutProductLookup(c, {<<"4", "0">>, <<"7", "8", "9">>, Absent}, {Absent})
    \/ \E c \in Conns : PutProductUpdate(c)
    \/ DeleteSupplier
    \/ DeleteProduct
    \/ DeleteAssociation

\* the update and delete routes on a database that holds one row of each kind
SpecAmend == InitStored /\ [][NextAmend]_vars

\* the three creates, with bodies that hold the stored cnpj or barcode or a
\* new one, the delete that cascades, and updates whose body names no key
NextCreate ==
    \/ \E c \in Conns :
          PostSupplierLookup(c, {formatCNPJ(ValidDigits), formatCNPJ(OtherValidDigits)})
    \/ \E c \in Conns : PostSupplierInsert(c)
    \/ \E c \in Conns : PostProductLookup(c, {<<"4", "0">>, Absent}, {Absent})
    \/ \E c \in Conns : PostProductInsert(c)
    \/ \E c \in Conns : PostAssociationLookup(c)
    \/ \E c \in Conns : PostAssociationInsert(c)
    \/ \E c \in Conns : PutSupplierLookup(c, {Absent})
    \/ \E c \in Conns : PutProductLookup(c, {Absent}, {Absent})
    \/ DeleteSupplier

\* the create routes, with an update and a delete, on a database that holds one
\* row of each kind
SpecCreate == InitStored /\ [][NextCreate]_vars

\* a database that holds MaxSupplierId suppliers and MaxProductId products and
\* no association yet
InitAssoc ==
    /\ suppliers = {[id |-> 1, cnpj |-> formatCNPJ(ValidDigits)],
                    [id |-> 2, cnpj |-> formatCNPJ(OtherValidDigits)]}
    /\ nextSupplierId = 3
    /\ products = {[id |-> 1, barcode |-> Null, quantity |-> 0],
                   [id |-> 2, barcode |-> Null, quantity |-> 0]}
    /\ nextProductId = 3
    /\ associations = {}
    /\ nextAssocId = 1
    /\ pending = [c \in Conns |-> Idle]
    /\ last = NoResponse
    /\ freed = {}
    /\ FormIdle

\* the association routes and the two deletes that cascade
SpecAssoc == InitAssoc /\ [][NextAssoc]_vars

----------------------------------------------------------------------------
(* Properties of validateCNPJ *)

W1 == <<5, 4, 3, 2, 9, 8, 7, 6, 5, 4, 3, 2>>
W2 == <<6, 5, 4, 3, 2, 9, 8, 7, 6, 5, 4, 3, 2>>

RECURSIVE Dot(_, _, _)
Dot(w, d, k) == IF k = 0 THEN 0 ELSE Dot(w, d, k - 1) + w[k] * ParseInt(d[k])

Expected(w, d) ==
    LET remainder == Dot(w, d, Len(w)) % 11
    IN  IF remainder < 2 THEN 0 ELSE 11 - remainder

FirstDigitRight(d) == ParseInt(d[13]) = Expected(W1, d)
SecondDigitRight(d) == ParseInt(d[14]) = Expected(W2, d)

\* C1: validateCNPJ returns true exactly when the stripped input has 14 digits,
\* not all identical, digit 12 is the check digit of digits 0..11 under the
\* weights 5,4,3,2,9,8,7,6,5,4,3,2 and digit 13 that of digits 0..12 under
\* 6,5,4,3,2,9,8,7,6,5,4,3,2; either digit wrong alone gives false.
C1_ValidateCharacterised ==
    out.fn = "validateCNPJ" =>
        LET d == StripNonDigits(out.arg)
        IN  out.ret = (/\ Len(d) = 14
                       /\ \E i \in 1..14 : d[i] # d[1]
                       /\ FirstDigitRight(d)
                       /\ SecondDigitRight(d))

\* C1 witness: a 14-digit input whose first check digit is right and whose
\* second is wrong has been refused
C1_Witness ==
    /\ out.fn = "validateCNPJ"
    /\ Len(StripNonDigits(out.arg)) = 14
    /\ FirstDigitRight(StripNonDigits(out.arg))
    /\ ~ SecondDigitRight(StripNonDigits(out.arg))
    /\ out.ret = FALSE

\* the other three cases of C1: first digit wrong alone, accepted, punctuated
C1_WitnessFirstWrong ==
    /\ out.fn = "validateCNPJ"
    /\ Len(StripNonDigits(out.arg)) = 14
    /\ ~ FirstDigitRight(StripNonDigits(out.arg))
    /\ SecondDigitRight(StripNonDigits(out.arg))
    /\ out.ret = FALSE

C1_WitnessAccepted ==
    /\ out.fn = "validateCNPJ"
    /\ Len(out.arg) = 18
    /\ out.ret = TRUE

----------------------------------------------------------------------------
(* Properties of the supplier routes, under SpecSupplier *)

\* C2: the cnpj of every stored supplier passes validateCNPJ.
C2_StoredCnpjValid ==
    \A s \in suppliers : validateCNPJ(s.cnpj)

\* C4: no two stored suppliers share a canonical CNPJ, the canonical CNPJ of a
\* stored value being its digits with the punctuation stripped.
C4_CanonicalCnpjUnique ==
    \A s, t \in suppliers :
        StripNonDigits(s.cnpj) = StripNonDigits(t.cnpj) => s = t

\* C5: a Create Supplier whose cnpj string is that of a stored supplier when it
\* is looked up never goes on to the insert; it is answered with the
\* duplicate-identifier error and leaves the supplier table as it was.
C5_DuplicateCreateRejected ==
    [][ /\ \A c \in Conns :
              (pending[c] = Idle /\ pending'[c].kind = "PostSupplier")
                  => ~ \E s \in suppliers : s.cnpj = pending'[c].cnpj
        /\ ( /\ last' # last
             /\ pending' = pending
             /\ last'.kind = "PostSupplier"
             /\ \E s \in suppliers : s.cnpj = last'.cnpj )
               => (last'.resp = "DuplicateIdentifier" /\ suppliers' = suppliers)
      ]_vars

\* C5 witness: a create has been answered duplicate-identifier while a
\* supplier holds its cnpj
C5_Witness ==
    /\ last.kind = "PostSupplier"
    /\ last.resp = "DuplicateIdentifier"
    /\ \E s \in suppliers : s.cnpj = last.cnpj

\* C6: no two stored suppliers hold the same cnpj string, whatever the
\* interleaving of the lookups and writes of concurrent creates and updates.
C6_StoredCnpjUnique ==
    \A s, t \in suppliers : s.cnpj = t.cnpj => s = t

\* C6 witness: a write that had passed its lookup was refused by the unique
\* index, the value being held by a supplier stored in the meantime
C6_Witness ==
    /\ last.kind \in {"PostSupplier", "PutSupplier"}
    /\ last.resp = "InternalError"
    /\ \E s \in suppliers : s.cnpj = last.cnpj

----------------------------------------------------------------------------
(* Properties of the association routes and the cascades, under SpecAssoc *)

SamePair(a, supplierId, productId) ==
    a.supplierId = supplierId /\ a.productId = productId

\* C3: at most one association per (supplierId, productId) pair.
C3_OneAssociationPerPair ==
    \A a, b \in associations :
        SamePair(a, b.supplierId, b.productId) => a = b

\* C7: a step that removes a supplier (a product) removes with it exactly the
\* associations that reference it, and leaves the other associations, the
\* other suppliers and every product (supplier) as they were.
C7_CascadeExact ==
    [][ /\ \A s \in suppliers \ suppliers' :
              /\ suppliers' = suppliers \ {s}
              /\ products' = products
              /\ associations' = {a \in associations : a.supplierId # s.id}
        /\ \A p \in products \ products' :
              /\ products' = products \ {p}
              /\ suppliers' = suppliers
              /\ associations' = {a \in associations : a.productId # p.id}
      ]_vars

\* C7 witness: a supplier went with at least one association of its own while
\* an association of another supplier stayed
C7_Witness ==
    /\ last.kind = "DeleteSupplier"
    /\ last.resp = "NoContent"
    /\ last.cascaded >= 1
    /\ associations # {}

\* C8: every stored association references a stored supplier and a stored
\* product, in every state.
C8_NoOrphan ==
    \A a \in associations :
        /\ \E s \in suppliers : s.id = a.supplierId
        /\ \E p \in products : p.id = a.productId

\* C8 witness: an insert that had passed its lookup was refused because the
\* supplier or the product had gone, while other associations are stored
C8_Witness ==
    /\ last.kind = "PostAssociation"
    /\ last.resp = "InternalError"
    /\ associations # {}

\* C9: a Create Association for a pair that is stored when it is looked up
\* never goes on to the insert; it is answered DuplicateAssociation and leaves
\* the association table as it was.
C9_DuplicateLinkRejected ==
    [][ /\ \A c \in Conns :
              (pending[c] = Idle /\ pending'[c].kind = "PostAssociation")
                  => ~ \E a \in associations :
                          SamePair(a, pending'[c].supplierId, pending'[c].productId)
        /\ ( /\ last' # last
             /\ pending' = pending
             /\ last'.kind = "PostAssociation" )
               => /\ last'.resp = "DuplicateAssociation"
                  /\ associations' = associations
                  /\ \E a \in associations :
                        SamePair(a, last'.supplierId, last'.productId)
      ]_vars

\* C9 witness: a create has been answered DuplicateAssociation for a stored pair
C9_Witness ==
    /\ last.kind = "PostAssociation"
    /\ last.resp = "DuplicateAssociation"
    /\ \E a \in associations : SamePair(a, last.supplierId, last.productId)

\* C10: a Delete Association that succeeds removes every association of its
\* pair and nothing else; and a Create Association for a pair that a delete
\* has freed and that is not stored is not refused as a duplicate, and is
\* stored and answered 201 when its supplier and product exist at the insert.
C10_FreeAndReacquire ==
    [][ /\ (last'.kind = "DeleteAssociation" /\ associations' # associations)
               => /\ last'.resp = "NoContent"
                  /\ associations' =
                        {a \in associations :
                            ~ SamePair(a, last'.supplierId, last'.productId)}
                  /\ suppliers' = suppliers
                  /\ products' = products
        /\ ( /\ last' # last
             /\ last'.kind = "PostAssociation"
             /\ last'.resp = "DuplicateAssociation" )
               => \E a \in associations : SamePair(a, last'.supplierId, last'.productId)
        /\ \A c \in Conns :
              ( /\ pending[c].kind = "PostAssociation"
                /\ pending'[c] = Idle
                /\ <<pending[c].supplierId, pending[c].productId>> \in freed
                /\ \E s \in suppliers : s.id = pending[c].supplierId
                /\ \E p \in products : p.id = pending[c].productId )
                  => /\ last'.resp = "Created"
                     /\ \E a \in associations' \ associations :
                           SamePair(a, pending[c].supplierId, pending[c].productId)
      ]_vars

\* C10 witness: a pair that a delete had freed has been created again
C10_Witness ==
    /\ last.kind = "PostAssociation"
    /\ last.resp = "Created"
    /\ <<last.supplierId, last.productId>> \in freed
    /\ Cardinality({a \in associations : SamePair(a, last.supplierId, last.productId)}) = 1

\* C11: a Create Association whose supplierId or productId identifies no
\* stored supplier or product is answered NotFound, and stores nothing.
C11_MissingEntityNotFound ==
    ( /\ last.kind = "PostAssociation"
      /\ \/ ~ \E s \in suppliers : s.id = last.supplierId
         \/ ~ \E p \in products : p.id = last.productId )
        => /\ last.resp = "NotFound"
           /\ ~ \E a \in associations : SamePair(a, last.supplierId, last.productId)

\* the step answers a request: no connection goes from idle to waiting
Answered == \A c \in Conns : pending'[c] = pending[c] \/ pending'[c] = Idle

\* the request answered by the step names an identity (or pair) that the
\* collections do not hold, and a cnpj or barcode that no row holds
C12_AddressedToNothing ==
    \/ /\ last'.kind = "PutSupplier"
       /\ ~ \E s \in suppliers : s.id = last'.id
       /\ last'.cnpj = Absent \/ getSupplierByCnpj(last'.cnpj) = {}
    \/ /\ last'.kind = "PutProduct"
       /\ ~ \E p \in products : p.id = last'.id
       /\ last'.barcode = Absent \/ getProductByBarcode(last'.barcode) = {}
    \/ /\ last'.kind = "DeleteSupplier"
       /\ ~ \E s \in suppliers : s.id = last'.id
    \/ /\ last'.kind = "DeleteProduct"
       /\ ~ \E p \in products : p.id = last'.id
    \/ /\ last'.kind = "DeleteAssociation"
       /\ ~ \E a \in associations : SamePair(a, last'.supplierId, last'.productId)

\* C12: an update of a supplier or product, or a delete of a supplier, product
\* or association, that names an identity (or pair) not stored and collides
\* with no unique key is answered NotFound and leaves the three collections
\* as they were.
C12_MissingIdentityNotFound ==
    [][ (Answered /\ C12_AddressedToNothing)
            => /\ last'.resp = "NotFound"
               /\ UNCHANGED <<suppliers, products, associations>> ]_vars

\* an update that waited while its supplier was deleted has been answered NotFound
C12_Witness ==
    /\ last.kind = "PutSupplier"
    /\ last.resp = "NotFound"
    /\ last.id = 1
    /\ last.cnpj = ValidDigits
    /\ suppliers = {}
    /\ products # {}

----------------------------------------------------------------------------
(* Properties of the product routes, under SpecBarcode *)

\* no two stored products hold the same present barcode
BarcodesDistinct ==
    \A p, q \in products : (p.barcode # Null /\ p.barcode = q.barcode) => p = q

\* a create that supplies a barcode held by a stored product when it is looked
\* up never goes on to the insert, and is answered duplicate-identifier with
\* the product table as it was
DuplicateBarcodeRejected ==
    /\ \A c \in Conns :
          ( /\ pending[c] = Idle
            /\ pending'[c].kind = "PostProduct"
            /\ Truthy(pending'[c].barcode) )
              => ~ \E p \in products : p.barcode = pending'[c].barcode
    /\ ( /\ pending' = pending
         /\ last'.kind = "PostProduct"
         /\ Truthy(last'.barcode)
         /\ \E p \in products : p.barcode = last'.barcode )
           => (last'.resp = "DuplicateIdentifier" /\ products' = products)

\* C13: a Create Product that supplies the barcode of a stored product is
\* answered with the duplicate-identifier error and stores nothing, and in
\* every reachable state no two stored products hold the same present barcode.
C13_DuplicateBarcode ==
    /\ []BarcodesDistinct
    /\ [][DuplicateBarcodeRejected]_vars

\* C13 witness: a create has been answered duplicate-identifier while a
\* product holds its barcode
C13_Witness ==
    /\ last.kind = "PostProduct"
    /\ last.resp = "DuplicateIdentifier"
    /\ \E p \in products : p.barcode = last.barcode

\* C14: a Create Product without a barcode (omitted, or sent as the empty
\* string, as the product form does for a blank field) never fails because of
\* a barcode conflict: the insert is never refused by the unique index.
C14_BlankBarcodeNeverConflicts ==
    (last.kind = "PostProduct" /\ ~ Truthy(last.barcode))
        => last.resp # "InternalError"

----------------------------------------------------------------------------
(* Properties of the updates, under SpecSupplier and SpecBarcode *)

\* C15: an Update Supplier whose cnpj is held by a different stored supplier
\* when it is looked up never goes on to the write, and is answered with the
\* duplicate-identifier error with the supplier table as it was; an update is
\* answered duplicate-identifier only then, so never for the supplier's own
\* cnpj or for one that no supplier holds.
C15_UpdateSupplierDuplicate ==
    [][ /\ \A c \in Conns :
              (pending[c] = Idle /\ pending'[c].kind = "PutSupplier")
                  => ~ \E s \in suppliers :
                         s.cnpj = pending'[c].cnpj /\ s.id # pending'[c].id
        /\ ( /\ pending' = pending
             /\ last'.kind = "PutSupplier"
             /\ \E s \in suppliers : s.cnpj = last'.cnpj /\ s.id # last'.id )
               => (last'.resp = "DuplicateIdentifier" /\ suppliers' = suppliers)
        /\ ( /\ pending' = pending
             /\ last'.kind = "PutSupplier"
             /\ last'.resp = "DuplicateIdentifier" )
               => \E s \in suppliers : s.cnpj = last'.cnpj /\ s.id # last'.id
      ]_vars

\* C15 witness: an update has been answered duplicate-identifier while another
\* supplier holds its cnpj, and the supplier it names holds a different one
C15_Witness ==
    /\ last.kind = "PutSupplier"
    /\ last.resp = "DuplicateIdentifier"
    /\ \E s, t \in suppliers :
          /\ s.id # last.id /\ s.cnpj = last.cnpj
          /\ t.id = last.id /\ t.cnpj # last.cnpj

\* C15 witness: an update to the supplier's own cnpj has been answered 200
C15_WitnessOwn ==
    /\ last.kind = "PutSupplier"
    /\ last.resp = "OK"
    /\ \E s \in suppliers : s.id = last.id /\ s.cnpj = last.cnpj
    /\ Cardinality(suppliers) = 2

\* C16: an Update Product whose barcode is held by a different stored product
\* when it is looked up never goes on to the write, and is answered with the
\* duplicate-identifier error with the product table as it was; an update is
\* answered duplicate-identifier only then, so never for the product's own
\* barcode or for one that no product holds.
C16_UpdateProductDuplicate ==
    [][ /\ \A c \in Conns :
              (pending[c] = Idle /\ pending'[c].kind = "PutProduct")
                  => ~ \E p \in products :
                         p.barcode = pending'[c].barcode /\ p.id # pending'[c].id
        /\ ( /\ pending' = pending
             /\ last'.kind = "PutProduct"
             /\ Truthy(last'.barcode)
             /\ \E p \in products : p.barcode = last'.barcode /\ p.id # last'.id )
               => (last'.resp = "DuplicateIdentifier" /\ products' = products)
        /\ ( /\ pending' = pending
             /\ last'.kind = "PutProduct"
             /\ last'.resp = "DuplicateIdentifier" )
               => \E p \in products : p.barcode = last'.barcode /\ p.id # last'.id
      ]_vars

\* C16 witness: an update has been answered duplicate-identifier while another
\* product holds its barcode, and the product it names holds a different one
C16_Witness ==
    /\ last.kind = "PutProduct"
    /\ last.resp = "DuplicateIdentifier"
    /\ \E p, q \in products :
          /\ p.id # last.id /\ p.barcode = last.barcode
          /\ q.id = last.id /\ q.barcode # last.barcode

\* C16 witness: an update to the product's own barcode has been answered 200
C16_WitnessOwn ==
    /\ last.kind = "PutProduct"
    /\ last.resp = "OK"
    /\ Truthy(last.barcode)
    /\ \E p \in products : p.id = last.id /\ p.barcode = last.barcode
    /\ Cardinality(products) = 2

----------------------------------------------------------------------------
(* Properties of the utilities, under SpecCNPJ *)

\* C17: validateCNPJ returns false for every string whose digits, the other
\* characters stripped, are not 14 in number: fewer, more, or none.
C17_WrongLengthRefused ==
    (out.fn = "validateCNPJ" /\ Len(StripNonDigits(out.arg)) # 14)
        => out.ret = FALSE

\* C17 witness: a string of 15 digits, the first 14 of which are a number
\* with both check digits right, has been refused
C17_Witness ==
    /\ out.fn = "validateCNPJ"
    /\ Len(StripNonDigits(out.arg)) = 15
    /\ SubSeq(StripNonDigits(out.arg), 1, 14) = ValidDigits
    /\ out.ret = FALSE

\* C17 witness: so has a string with one digit too few, and one with none
C17_WitnessShort ==
    /\ out.fn = "validateCNPJ"
    /\ StripNonDigits(out.arg) = SubSeq(ValidDigits, 1, 13)
    /\ out.ret = FALSE

C17_WitnessNone ==
    /\ out.fn = "validateCNPJ"
    /\ StripNonDigits(out.arg) = <<>>
    /\ out.ret = FALSE

\* C18: validateCNPJ returns false for each of the ten strings of 14 identical
\* digits, with or without punctuation, also where the check digits compute
\* as right.
C18_RepeatedDigitRefused ==
    (out.fn = "validateCNPJ" /\ StripNonDigits(out.arg) \in RepeatedDigits)
        => out.ret = FALSE

\* C18 witness: 00.000.000/0000-00, whose two check digits are right, has been
\* refused
C18_Witness ==
    /\ out.fn = "validateCNPJ"
    /\ out.arg = formatCNPJ(ZeroDigits)
    /\ FirstDigitRight(ZeroDigits)
    /\ SecondDigitRight(ZeroDigits)
    /\ out.ret = FALSE

\* C18 witness: 99.999.999/9999-99 has been refused
C18_WitnessNines ==
    /\ out.fn = "validateCNPJ"
    /\ out.arg = formatCNPJ([i \in 1..14 |-> "9"])
    /\ out.ret = FALSE

\* the position of the last digit of a string that has one
LastDigitIndex(s) ==
    CHOOSE i \in 1..Len(s) : s[i] \in Digits /\ \A j \in (i + 1)..Len(s) : s[j] \notin Digits

\* the string with its last digit replaced by c
ReplaceLastDigit(s, c) == [s EXCEPT ![LastDigitIndex(s)] = c]

\* C19: validateCNPJ("11.444.777/0001-61") is true and
\* validateCNPJ("11.444.777/0001-62") is false; and whenever validateCNPJ
\* accepts a string, it refuses every string that differs from it in the last
\* digit alone.
C19_LastDigitDecides ==
    out.fn = "validateCNPJ" =>
        /\ out.arg = formatCNPJ(ValidDigits) => out.ret = TRUE
        /\ out.arg = formatCNPJ(WrongLastDigits) => out.ret = FALSE
        /\ out.ret = TRUE =>
              \A c \in Digits \ {out.arg[LastDigitIndex(out.arg)]} :
                  validateCNPJ(ReplaceLastDigit(out.arg, c)) = FALSE

\* C19 witness: 11.444.777/0001-62 has been refused
C19_Witness ==
    /\ out.fn = "validateCNPJ"
    /\ out.arg = formatCNPJ(WrongLastDigits)
    /\ out.ret = FALSE

\* C19 witness: 11.444.777/0001-61 has been accepted
C19_WitnessAccepted ==
    /\ out.fn = "validateCNPJ"
    /\ out.arg = formatCNPJ(ValidDigits)
    /\ out.ret = TRUE

\* the separator written before digit k: '.' after digits 2 and 5, '/' after
\* digit 8, '-' after digit 12
Separator(k) ==
    IF k \in {3, 6} THEN <<".">>
    ELSE IF k = 9 THEN <<"/">>
    ELSE IF k = 13 THEN <<"-">>
    ELSE <<>>

\* the first k digits of d with the separators between them
RECURSIVE Masked(_, _)
Masked(d, k) ==
    IF k = 0 THEN <<>> ELSE Masked(d, k - 1) \o Separator(k) \o <<d[k]>>

\* 11.444.777/0001-61
FormattedValid ==
    <<"1", "1", ".", "4", "4", "4", ".", "7", "7", "7", "/", "0", "0", "0", "1", "-", "6", "1">>

\* C20 as stated: for every input with at most 14 digits, formatCNPJ returns
\* the digits with '.', '.', '/' and '-' inserted after digit 2, 5, 8 and 12.
C20_FormatsUpTo14 ==
    (out.fn = "formatCNPJ" /\ Len(StripNonDigits(out.arg)) <= 14)
        => out.ret = Masked(StripNonDigits(out.arg), Len(StripNonDigits(out.arg)))

\* C20, amended: for every input with exactly 14 digits, formatCNPJ returns
\* the 18 characters NN.NNN.NNN/NNNN-NN, the digits in order with '.', '.',
\* '/' and '-' after digit 2, 5, 8 and 12; for an input with fewer than 14
\* digits it returns the digits alone; formatCNPJ("11444777000161") is
\* "11.444.777/0001-61".
C20_FormatsAt14 ==
    out.fn = "formatCNPJ" =>
        LET d == StripNonDigits(out.arg)
        IN  /\ Len(d) = 14 =>
                  /\ out.ret = Masked(d, 14)
                  /\ Len(out.ret) = 18
                  /\ out.ret[3] = "." /\ out.ret[7] = "."
                  /\ out.ret[11] = "/" /\ out.ret[16] = "-"
                  /\ StripNonDigits(out.ret) = d
            /\ Len(d) < 14 => out.ret = d
            /\ out.arg = ValidDigits => out.ret = FormattedValid

\* C20 witness: formatCNPJ("11444777000161") has returned "11.444.777/0001-61"
C20_Witness ==
    /\ out.fn = "formatCNPJ"
    /\ out.arg = ValidDigits
    /\ out.ret = FormattedValid

\* C20 witness: 13 digits have come back without a separator
C20_WitnessShort ==
    /\ out.fn = "formatCNPJ"
    /\ Len(StripNonDigits(out.arg)) = 13
    /\ out.ret = StripNonDigits(out.arg)

\* the characters of the texts of the model
Chars == TypedChars \cup {"/", "-", "(", ")", " "}

\* C21: formatCNPJ returns a string for every input, and for an input with more
\* than 14 digits it returns exactly those digits: no separator, none dropped.
C21_LongInputComesBackBare ==
    out.fn = "formatCNPJ" =>
        /\ out.ret \in Seq(Chars)
        /\ Len(StripNonDigits(out.arg)) > 14 => out.ret = StripNonDigits(out.arg)

\* C21 witness: 11.444.777/0001-61 with a digit typed after it has come back
\* as its 15 digits
C21_Witness ==
    /\ out.fn = "formatCNPJ"
    /\ Len(out.arg) = 19
    /\ SubSeq(out.arg, 1, 18) = FormattedValid
    /\ Len(out.ret) = 15
    /\ out.ret = StripNonDigits(out.arg)

\* r has the shape (NN) N..N-NNNN with n digits before the '-'
PhoneShape(r, n) ==
    /\ Len(r) = 10 + n
    /\ r[1] = "(" /\ r[4] = ")" /\ r[5] = " " /\ r[6 + n] = "-"
    /\ \A i \in (1..(10 + n)) \ {1, 4, 5, 6 + n} : r[i] \in Digits

\* (11) 9999-8888
FormattedPhone10 ==
    <<"(", "1", "1", ")", " ", "9", "9", "9", "9", "-", "8", "8", "8", "8">>

\* (11) 99999-8888
FormattedPhone11 ==
    <<"(", "1", "1", ")", " ", "9", "9", "9", "9", "9", "-", "8", "8", "8", "8">>

\* C22 as stated: formatPhone returns a string of the shape (NN) NNNN-NNNN for
\* every input with at most 10 digits, and of the shape (NN) NNNNN-NNNN for
\* every other input.
C22_PhoneShapeAlways ==
    out.fn = "formatPhone" =>
        IF Len(StripNonDigits(out.arg)) <= 10
        THEN PhoneShape(out.ret, 4)
        ELSE PhoneShape(out.ret, 5)

\* C22, amended: formatPhone returns (NN) NNNN-NNNN for an input with exactly
\* 10 digits and (NN) NNNNN-NNNN for one with exactly 11; for fewer than 10
\* digits it returns the digits alone, and for more than 11 it returns the
\* first 11 in the shape (NN) NNNNN-NNNN followed by the remaining digits;
\* formatPhone("1199998888") is "(11) 9999-8888" and formatPhone("11999998888")
\* is "(11) 99999-8888".
C22_PhoneShapeAt10And11 ==
    out.fn = "formatPhone" =>
        LET d == StripNonDigits(out.arg)
        IN  /\ Len(d) < 10 => out.ret = d
            /\ Len(d) = 10 => PhoneShape(out.ret, 4)
            /\ Len(d) = 11 => PhoneShape(out.ret, 5)
            /\ Len(d) > 11 =>
                  /\ Len(out.ret) = Len(d) + 4
                  /\ PhoneShape(SubSeq(out.ret, 1, 15), 5)
                  /\ SubSeq(out.ret, 16, Len(out.ret)) = SubSeq(d, 12, Len(d))
            /\ StripNonDigits(out.ret) = d
            /\ out.arg = Phone10Digits => out.ret = FormattedPhone10
            /\ out.arg = PhoneDigits => out.ret = FormattedPhone11

\* C22 witness: formatPhone("1199998888") has returned "(11) 9999-8888"
C22_Witness ==
    /\ out.fn = "formatPhone"
    /\ out.arg = Phone10Digits
    /\ out.ret = FormattedPhone10

\* C22 witnesses: "11999998888"; 9 digits come back bare; 12 digits keep the
\* twelfth after the shape
C22_WitnessEleven ==
    /\ out.fn = "formatPhone"
    /\ out.arg = PhoneDigits
    /\ out.ret = FormattedPhone11

C22_WitnessShort ==
    /\ out.fn = "formatPhone"
    /\ Len(out.arg) = 9
    /\ out.ret = out.arg

C22_WitnessLong ==
    /\ out.fn = "formatPhone"
    /\ Len(StripNonDigits(out.arg)) = 12
    /\ Len(out.ret) = 16
    /\ out.ret[16] \in Digits

\* C23: in every reachable state the quantity of every stored product is a
\* non-negative integer, whatever Create Product and Update Product requests
\* the server has handled.
C23_QuantityNonNegative ==
    \A p \in products : p.quantity \in Nat

\* the identities a step adds to a collection
AddedIds(before, after) == {r.id : r \in after} \ {r.id : r \in before}

\* C24: a step adds at most one record in all; a record is added to a
\* collection only by a create of that collection answered Created, which
\* adds exactly one and none to the other two; every other step (an update, a
\* delete, a rejected request) adds no record to any collection.
C24_NoImplicitCreate ==
    [][ LET addedS == AddedIds(suppliers, suppliers')
            addedP == AddedIds(products, products')
            addedA == AddedIds(associations, associations')
        IN  /\ Cardinality(addedS) + Cardinality(addedP) + Cardinality(addedA) <= 1
            /\ addedS # {} => (last'.kind = "PostSupplier" /\ last'.resp = "Created")
            /\ addedP # {} => (last'.kind = "PostProduct" /\ last'.resp = "Created")
            /\ addedA # {} => (last'.kind = "PostAssociation" /\ last'.resp = "Created")
            /\ (Answered /\ last'.resp = "Created") =>
                  /\ last'.kind = "PostSupplier" => Cardinality(addedS) = 1
                  /\ last'.kind = "PostProduct" => Cardinality(addedP) = 1
                  /\ last'.kind = "PostAssociation" => Cardinality(addedA) = 1
      ]_vars

\* C24 witness: a create of each kind has stored its record, the last one an
\* association
C24_Witness ==
    /\ last.kind = "PostAssociation"
    /\ last.resp = "Created"
    /\ Cardinality(suppliers) = 2
    /\ Cardinality(products) = 2
    /\ Cardinality(associations) = 2

\* C25: a Create Supplier or Create Product that stores nothing because its
\* cnpj or barcode collides with a stored record is answered with the
\* duplicate-identifier error, also when the collision shows only at the insert.
C25_CollisionAnsweredDuplicate ==
    ( /\ last.kind \in {"PostSupplier", "PostProduct"}
      /\ last.resp \notin {"Created", "InvalidData"} )
        => last.resp = "DuplicateIdentifier"

\* C26: an Update Supplier (Update Product) that names an identity not stored
\* and carries a cnpj (barcode) held by a stored record when it is looked up
\* never goes on to the write: it is answered with the duplicate-identifier
\* error, not NotFound, and the collections stay as they were.
C26_DuplicateBeforeExistence ==
    [][ /\ \A c \in Conns :
              ( /\ pending[c] = Idle
                /\ pending'[c].kind = "PutSupplier"
                /\ ~ \E s \in suppliers : s.id = pending'[c].id )
                  => ~ \E s \in suppliers : s.cnpj = pending'[c].cnpj
        /\ \A c \in Conns :
              ( /\ pending[c] = Idle
                /\ pending'[c].kind = "PutProduct"
                /\ ~ \E p \in products : p.id = pending'[c].id )
                  => ~ \E p \in products : p.barcode = pending'[c].barcode
        /\ ( /\ pending' = pending
             /\ last'.kind = "PutSupplier"
             /\ ~ \E s \in suppliers : s.id = last'.id
             /\ \E s \in suppliers : s.cnpj = last'.cnpj )
               => /\ last'.resp = "DuplicateIdentifier"
                  /\ UNCHANGED <<suppliers, products, associations>>
        /\ ( /\ pending' = pending
             /\ last'.kind = "PutProduct"
             /\ Truthy(last'.barcode)
             /\ ~ \E p \in products : p.id = last'.id
             /\ \E p \in products : p.barcode = last'.barcode )
               => /\ last'.resp = "DuplicateIdentifier"
                  /\ UNCHANGED <<suppliers, products, associations>>
      ]_vars

\* C26 witness: an update of a supplier that is not stored has been answered
\* duplicate-identifier, a stored supplier holding its cnpj
C26_Witness ==
    /\ last.kind = "PutSupplier"
    /\ last.resp = "DuplicateIdentifier"
    /\ ~ \E s \in suppliers : s.id = last.id
    /\ \E s \in suppliers : s.cnpj = last.cnpj

\* C26 witness: the same for a product
C26_WitnessProduct ==
    /\ last.kind = "PutProduct"
    /\ last.resp = "DuplicateIdentifier"
    /\ ~ \E p \in products : p.id = last.id
    /\ \E p \in products : p.barcode = last.barcode

\* C27: validateCNPJ gives the same answer for a text and for what formatCNPJ
\* makes of it, so the formatted value of the form is accepted exactly when
\* the typed text is.
C27_ValidateIgnoresFormatting ==
    /\ out.fn = "formatCNPJ" => validateCNPJ(out.ret) = validateCNPJ(out.arg)
    /\ out.fn = "validateCNPJ" => validateCNPJ(formatCNPJ(out.arg)) = out.ret

\* C27 witness: the 14 typed digits of a valid number have been formatted to
\* 18 characters, and both texts are accepted
C27_Witness ==
    /\ out.fn = "formatCNPJ"
    /\ out.arg = ValidDigits
    /\ Len(out.ret) = 18
    /\ validateCNPJ(out.arg)
    /\ validateCNPJ(out.ret)

\* C27 witness: the typed digits are refused, and so is the formatted text
C27_WitnessRefused ==
    /\ out.fn = "formatCNPJ"
    /\ out.arg = WrongLastDigits
    /\ Len(out.ret) = 18
    /\ ~ validateCNPJ(out.arg)
    /\ ~ validateCNPJ(out.ret)

\* C28: the digits of what formatCNPJ and formatPhone return are the digits of
\* the input, in order, whatever their number; and either formatter applied to
\* its own result returns it unchanged.
C28_DigitsPreserved ==
    /\ out.fn = "formatCNPJ" =>
          /\ StripNonDigits(out.ret) = StripNonDigits(out.arg)
          /\ formatCNPJ(out.ret) = out.ret
    /\ out.fn = "formatPhone" =>
          /\ StripNonDigits(out.ret) = StripNonDigits(out.arg)
          /\ formatPhone(out.ret) = out.ret

\* C28 witness: formatPhone has been given 12 digits among other characters
\* and has returned all 12
C28_Witness ==
    /\ out.fn = "formatPhone"
    /\ out.arg # StripNonDigits(out.arg)
    /\ Len(StripNonDigits(out.arg)) = 12
    /\ Len(StripNonDigits(out.ret)) = 12

\* C28 witness: formatCNPJ has been given 15 digits and has returned all 15
C28_WitnessCNPJ ==
    /\ out.fn = "formatCNPJ"
    /\ Len(StripNonDigits(out.arg)) = 15
    /\ Len(StripNonDigits(out.ret)) = 15

----------------------------------------------------------------------------
(* The whole application *)

Init == InitForm /\ InitDB

Next ==
    \/ NextForm
    \/ NextSupplier
    \/ NextProduct
    \/ NextAssoc

Spec == Init /\ [][Next]_vars

====
